---- MODULE Spec2Model ----
(***************************************************************************)
(* Loader of the matrix-sdk-crypto-wasm binary module.                     *)
(*                                                                         *)
(* Four entry points are modelled:                                         *)
(*   index_cjs  src/index.js             fetch, CommonJS                   *)
(*   index_esm  src/unnamed/part_000     fetch, ES module   (lines 1-65)   *)
(*   node_cjs   src/node.js              file system, auto-load            *)
(*   node_alt   src/unnamed/part_000     file system, auto-load (66-135)   *)
(*                                                                         *)
(* JavaScript runs every synchronous section to completion: `cur` is the   *)
(* section that is executing (new WebAssembly.Instance, __wbg_set_wasm,    *)
(* __wbindgen_start), and while it is set no other call can start or       *)
(* resume.  An `await` is a suspension point: the call's `pc` stays at the *)
(* awaited operation until the host settles it.                            *)
(***************************************************************************)
EXTENDS Integers, FiniteSets, Sequences, TLC

\* Bounds of the model: number of initAsync calls and of domain calls.
MaxInit == 2
MaxDom == 2

Calls == 1..MaxInit

WebVariants == {"index_cjs", "index_esm"}
NodeVariants == {"node_cjs", "node_alt"}
Variants == WebVariants \cup NodeVariants

\* The value of the Live Exports Slot installed at module load.
Guard == 0
\* `let mod;` : the Module Cache before any compile.
NoModule == 0

\* Resource location of the binary module.
ModuleUrl(v) ==
    IF v = "index_cjs" THEN "require.resolve(./pkg/matrix_sdk_crypto_wasm_bg.wasm)"
    ELSE IF v = "index_esm" THEN "new URL(./pkg/matrix_sdk_crypto_wasm_bg.wasm, import.meta.url)"
    ELSE "path.join(__dirname, pkg/matrix_sdk_crypto_wasm_bg.wasm)"

\* Error messages, as the sequence of their parts.
PrematureUseMsg ==
    << "@matrix-org/matrix-sdk-crypto-wasm was used before it was initialized. Call ",
       "initAsync", " first." >>
FetchFailedMsgNoUrl(url) == << "Failed to fetch wasm module: " >>
FetchFailedMsg(url) == << "Failed to fetch wasm module: ", url >>
\* Errors raised by the host, not by the loader.
HostStatusMsg == << "TypeError: WebAssembly.compileStreaming: HTTP status code is not ok" >>
HostNetworkMsg == << "TypeError: Failed to fetch" >>
ReadMsg == << "Error: read failed" >>
CompileMsg == << "CompileError: WebAssembly.Module()" >>
LinkMsg == << "LinkError: WebAssembly.Instance()" >>
NoModuleMsg == << "TypeError: WebAssembly.Instance(): Argument 0 must be a WebAssembly.Module" >>
StartMsg == << "RuntimeError: __wbindgen_start" >>
NoMsg == << >>

Includes(msg, part) == \E k \in 1..Len(msg) : msg[k] = part

VARIABLES
    variant,    \* which entry point is loaded
    streaming,  \* typeof WebAssembly.compileStreaming === "function"
    slot,       \* Live Exports Slot: Guard, or k for the exports of instance k
    mod,        \* Module Cache: NoModule, or m for the m-th compiled module
    pc,         \* position of each initAsync call
    ret,        \* value the call's loadModule() resolved with
    out,        \* how the call was settled: cause and error message
    boundAt,    \* the slot's binding when the call resolved
    cur,        \* the synchronous section that is executing
    nFetch,     \* fetch / readFile / readFileSync calls issued
    nCompile,   \* compileStreaming / compile / new Module calls issued
    nMod,       \* modules compiled successfully
    nInst,      \* instances constructed
    rebound,    \* instances whose exports were installed in the slot
    started,    \* instances whose __wbindgen_start was invoked
    startedOk,  \* instances whose __wbindgen_start returned
    nDom,       \* domain calls issued
    domRes,     \* outcomes of the domain calls
    faults,     \* the host has failed some operation
    enumLast    \* the last enum constant read from the Binding Surface

vars == << variant, streaming, slot, mod, pc, ret, out, boundAt, cur, nFetch,
           nCompile, nMod, nInst, rebound, started, startedOk, nDom, domRes,
           faults, enumLast >>

NoFrame == [kind |-> "none", id |-> 0, step |-> "none", inst |-> 0]
NoOutcome == [cause |-> "none", msg |-> NoMsg]

\* Positions at which an initAsync call is suspended in an await.
Suspended == {"streaming", "fetching", "reading", "compiling", "loaded"}

\* No enum constant has been read.
NoEnum == [name |-> "none", value |-> -1]

\* Module load that also starts fetching the binary module.
InitEager ==
    /\ variant \in Variants
    /\ streaming \in (IF variant \in WebVariants THEN BOOLEAN ELSE {FALSE})
    /\ slot = Guard
    /\ mod = NoModule
    /\ pc = [i \in Calls |-> "idle"]
    /\ ret = [i \in Calls |-> NoModule]
    /\ out = [i \in Calls |-> NoOutcome]
    /\ boundAt = [i \in Calls |-> Guard]
    /\ cur = NoFrame
    /\ nFetch = 1
    /\ nCompile = 0
    /\ nMod = 0
    /\ nInst = 0
    /\ rebound = {}
    /\ started = {}
    /\ startedOk = {}
    /\ nDom = 0
    /\ domRes = {}
    /\ faults = FALSE
    /\ enumLast = NoEnum

\* Module load: the Proxy is installed, nothing else is started.
Init ==
    /\ variant \in Variants
    /\ streaming \in (IF variant \in WebVariants THEN BOOLEAN ELSE {FALSE})
    /\ slot = Guard
    /\ mod = NoModule
    /\ pc = [i \in Calls |-> "idle"]
    /\ ret = [i \in Calls |-> NoModule]
    /\ out = [i \in Calls |-> NoOutcome]
    /\ boundAt = [i \in Calls |-> Guard]
    /\ cur = NoFrame
    /\ nFetch = 0
    /\ nCompile = 0
    /\ nMod = 0
    /\ nInst = 0
    /\ rebound = {}
    /\ started = {}
    /\ startedOk = {}
    /\ nDom = 0
    /\ domRes = {}
    /\ faults = FALSE
    /\ enumLast = NoEnum

(***************************************************************************)
(* Pieces of the loader that the actions below are built from.             *)
(***************************************************************************)

\* The get trap of the Proxy installed at module load: the fetch entry
\* points throw, the file-system entry points load and instantiate.
GuardThrowsNever(v) == FALSE
GuardThrows(v) == v \in WebVariants

\* What loadModule() resolves with after the streaming compile:
\* `return;` in index.js, `return mod;` in the ES module.
StreamingReturn(v, m) == IF v = "index_esm" THEN m ELSE NoModule

\* What loadModule() resolves with after the buffered compile: index.js and
\* the file-system entry points fall off the end of the function.
BufferedReturn(v, m) == IF v = "index_esm" THEN m ELSE NoModule

\* The module handed to new WebAssembly.Instance: the ES module uses the
\* value loadModule() resolved with, the others read the module-level `mod`.
ModuleArgAwaited(v, local, cache) == local
ModuleArg(v, local, cache) == IF v = "index_esm" THEN local ELSE cache

\* The cache as a rejected load leaves it: `mod = await ...` does not assign.
ModAfterFailedLoadPoisoned(m) == -1
ModAfterFailedLoad(m) == m

\* The cache as a successful compile leaves it: `mod = ...` is unconditional.
ModAfterCompile(old, new) == new

\* bindings.__wbg_set_wasm(instance.exports)
SetWasmKeepsSlot(current, exports) == current
SetWasm(current, exports) == exports

\* The slot as a throwing instantiation or start-up leaves it: no rollback.
SlotAfterThrowRolledBack(s) == Guard
SlotAfterThrow(s) == s

\* Order of the statements of the synchronous section.
StepAfterSwapped(step) ==
    IF step = "instantiate" THEN "start"
    ELSE IF step = "start" THEN "rebind"
    ELSE "return"
StepAfterSkipsStart(step) ==
    IF step = "instantiate" THEN "rebind"
    ELSE "return"
StepAfter(step) ==
    IF step = "instantiate" THEN "rebind"
    ELSE IF step = "rebind" THEN "start"
    ELSE "return"

\* Whether loadModule takes the streaming path:
\* typeof WebAssembly.compileStreaming === "function", fetch entry points.
UsesStreamingNever(v, s) == FALSE
UsesStreaming(v, s) == v \in WebVariants /\ s

\* Whether some initAsync call is suspended in an await.
SomeSuspended == \E i \in Calls : pc[i] \in Suspended

\* Outcome of a domain call: the slot's binding it read, success or the
\* error thrown, the instance whose export it reached.
DomRec(read, kind, msg, inst, invoked, completed) ==
    [slot |-> read, kind |-> kind, msg |-> msg, inst |-> inst,
     startInvoked |-> invoked, startCompleted |-> completed,
     during |-> SomeSuspended]

(***************************************************************************)
(* initAsync: loadModule                                                   *)
(***************************************************************************)

\* A load step of call i rejects: the error propagates out of initAsync.
RejectLoad(i, cause, msg) ==
    /\ pc' = [pc EXCEPT ![i] = "rejected"]
    /\ out' = [out EXCEPT ![i] = [cause |-> cause, msg |-> msg]]
    /\ mod' = ModAfterFailedLoad(mod)
    /\ faults' = TRUE

\* initAsync() is called: loadModule runs up to its first await.
InitAsyncCall(i) ==
    /\ cur = NoFrame
    /\ pc[i] = "idle"
    /\ \A j \in 1..(i - 1) : pc[j] # "idle"
    /\ IF mod # NoModule
       THEN /\ pc' = [pc EXCEPT ![i] = "loaded"]
            /\ ret' = [ret EXCEPT ![i] = mod]
            /\ UNCHANGED << nFetch, nCompile >>
       ELSE IF UsesStreaming(variant, streaming)
       THEN /\ pc' = [pc EXCEPT ![i] = "streaming"]
            /\ nFetch' = nFetch + 1
            /\ nCompile' = nCompile + 1
            /\ UNCHANGED ret
       ELSE /\ pc' = [pc EXCEPT ![i] = IF variant \in WebVariants
                                       THEN "fetching" ELSE "reading"]
            /\ nFetch' = nFetch + 1
            /\ UNCHANGED << ret, nCompile >>
    /\ UNCHANGED << enumLast, variant, streaming, slot, mod, out, boundAt, cur, nMod,
                    nInst, rebound, started, startedOk, nDom, domRes, faults >>

\* WebAssembly.compileStreaming(fetch(moduleUrl)) settles.
StreamingSettle(i, outcome) ==
    /\ cur = NoFrame
    /\ pc[i] = "streaming"
    /\ IF outcome = "ok"
       THEN /\ nMod' = nMod + 1
            /\ mod' = ModAfterCompile(mod, nMod + 1)
            /\ ret' = [ret EXCEPT ![i] = StreamingReturn(variant, mod')]
            /\ pc' = [pc EXCEPT ![i] = "loaded"]
            /\ UNCHANGED << out, faults >>
       ELSE /\ RejectLoad(i, outcome,
                          IF outcome = "status" THEN HostStatusMsg
                          ELSE IF outcome = "network" THEN HostNetworkMsg
                          ELSE CompileMsg)
            /\ UNCHANGED << nMod, ret >>
    /\ UNCHANGED << enumLast, variant, streaming, slot, boundAt, cur, nFetch, nCompile,
                    nInst, rebound, started, startedOk, nDom, domRes >>

\* `await fetch(moduleUrl)` of the buffered path settles; then response.ok
\* is checked.
FetchSettle(i, outcome) ==
    /\ cur = NoFrame
    /\ pc[i] = "fetching"
    /\ IF outcome = "ok"
       THEN /\ pc' = [pc EXCEPT ![i] = "reading"]
            /\ UNCHANGED << out, mod, faults >>
       ELSE RejectLoad(i, outcome,
                       IF outcome = "status"
                       THEN FetchFailedMsg(ModuleUrl(variant))
                       ELSE HostNetworkMsg)
    /\ UNCHANGED << enumLast, variant, streaming, slot, ret, boundAt, cur, nFetch,
                    nCompile, nMod, nInst, rebound, started, startedOk, nDom,
                    domRes >>

\* `await response.arrayBuffer()` or `await readFile(filename)` settles;
\* on success WebAssembly.compile(bytes) is called.
ReadSettle(i, ok) ==
    /\ cur = NoFrame
    /\ pc[i] = "reading"
    /\ IF ok
       THEN /\ pc' = [pc EXCEPT ![i] = "compiling"]
            /\ nCompile' = nCompile + 1
            /\ UNCHANGED << out, mod, faults >>
       ELSE /\ RejectLoad(i, "read", ReadMsg)
            /\ UNCHANGED nCompile
    /\ UNCHANGED << enumLast, variant, streaming, slot, ret, boundAt, cur, nFetch,
                    nMod, nInst, rebound, started, startedOk, nDom, domRes >>

\* `mod = await WebAssembly.compile(bytes)` settles.
CompileSettle(i, ok) ==
    /\ cur = NoFrame
    /\ pc[i] = "compiling"
    /\ IF ok
       THEN /\ nMod' = nMod + 1
            /\ mod' = ModAfterCompile(mod, nMod + 1)
            /\ ret' = [ret EXCEPT ![i] = BufferedReturn(variant, mod')]
            /\ pc' = [pc EXCEPT ![i] = "loaded"]
            /\ UNCHANGED << out, faults >>
       ELSE /\ RejectLoad(i, "compile", CompileMsg)
            /\ UNCHANGED << nMod, ret >>
    /\ UNCHANGED << enumLast, variant, streaming, slot, boundAt, cur, nFetch, nCompile,
                    nInst, rebound, started, startedOk, nDom, domRes >>

\* `await loadModule()` resumes initAsync: the synchronous section begins.
InitResume(i) ==
    /\ cur = NoFrame
    /\ pc[i] = "loaded"
    /\ pc' = [pc EXCEPT ![i] = "sync"]
    /\ cur' = [kind |-> "init", id |-> i, step |-> "instantiate", inst |-> 0]
    /\ UNCHANGED << enumLast, variant, streaming, slot, mod, ret, out, boundAt, nFetch,
                    nCompile, nMod, nInst, rebound, started, startedOk, nDom,
                    domRes, faults >>

(***************************************************************************)
(* The synchronous section: new WebAssembly.Instance, __wbg_set_wasm,      *)
(* __wbindgen_start.  It is the tail of initAsync in the fetch entry       *)
(* points and initInstance in the file-system entry points.                *)
(***************************************************************************)

\* The section returns (ok) or throws (msg) to the call that runs it.
Settle(ok, cause, msg, inst, newSlot, invoked, completed) ==
    /\ cur' = NoFrame
    /\ IF cur.kind = "init"
       THEN /\ pc' = [pc EXCEPT ![cur.id] = IF ok THEN "resolved" ELSE "rejected"]
            /\ out' = [out EXCEPT ![cur.id] = [cause |-> cause, msg |-> msg]]
            /\ boundAt' = [boundAt EXCEPT ![cur.id] = IF ok THEN newSlot ELSE @]
            /\ UNCHANGED domRes
       ELSE /\ domRes' = domRes \cup
                  {DomRec(Guard, IF ok THEN "ok" ELSE "err", msg, inst,
                          invoked, completed)}
            /\ UNCHANGED << pc, out, boundAt >>

\* The section goes on to its next statement, or returns after the last.
Proceed(inst, newSlot, invoked, completed) ==
    IF StepAfter(cur.step) = "return"
    THEN Settle(TRUE, "none", NoMsg, inst, newSlot, invoked, completed)
    ELSE /\ cur' = [cur EXCEPT !.step = StepAfter(cur.step), !.inst = inst]
         /\ UNCHANGED << pc, out, boundAt, domRes >>

\* new WebAssembly.Instance(mod, { "./matrix_sdk_crypto_wasm_bg.js": bindings })
Instantiate(linkOk) ==
    /\ cur.kind # "none"
    /\ cur.step = "instantiate"
    /\ LET m == ModuleArg(variant, IF cur.kind = "init" THEN ret[cur.id] ELSE NoModule, mod)
       IN  IF m \notin 1..nMod
           THEN /\ linkOk
                /\ Settle(FALSE, "nomodule", NoModuleMsg, 0, slot, FALSE, FALSE)
                /\ slot' = SlotAfterThrow(slot)
                /\ UNCHANGED << nInst, faults >>
           ELSE IF ~linkOk
           THEN /\ Settle(FALSE, "link", LinkMsg, 0, slot, FALSE, FALSE)
                /\ slot' = SlotAfterThrow(slot)
                /\ faults' = TRUE
                /\ UNCHANGED nInst
           ELSE /\ nInst' = nInst + 1
                /\ Proceed(nInst + 1, slot, FALSE, FALSE)
                /\ UNCHANGED << slot, faults >>
    /\ UNCHANGED << enumLast, variant, streaming, mod, ret, nFetch, nCompile, nMod,
                    rebound, started, startedOk, nDom >>

\* bindings.__wbg_set_wasm(instance.exports)
Rebind ==
    /\ cur.kind # "none"
    /\ cur.step = "rebind"
    /\ slot' = SetWasm(slot, cur.inst)
    /\ rebound' = rebound \cup ({slot'} \ {Guard})
    /\ Proceed(cur.inst, slot', cur.inst \in started, cur.inst \in startedOk)
    /\ UNCHANGED << enumLast, variant, streaming, mod, ret, nFetch, nCompile, nMod,
                    nInst, started, startedOk, nDom, faults >>

\* instance.exports.__wbindgen_start()
Start(ok) ==
    /\ cur.kind # "none"
    /\ cur.step = "start"
    /\ started' = started \cup {cur.inst}
    /\ IF ok
       THEN /\ startedOk' = startedOk \cup {cur.inst}
            /\ Proceed(cur.inst, slot, TRUE, TRUE)
            /\ UNCHANGED << slot, faults >>
       ELSE /\ Settle(FALSE, "start", StartMsg, cur.inst, slot, TRUE, FALSE)
            /\ slot' = SlotAfterThrow(slot)
            /\ faults' = TRUE
            /\ UNCHANGED startedOk
    /\ UNCHANGED << enumLast, variant, streaming, mod, ret, nFetch, nCompile, nMod,
                    nInst, rebound, nDom >>

(***************************************************************************)
(* Domain calls: a wrapper of the Binding Surface reads a property of the  *)
(* Live Exports Slot.                                                      *)
(***************************************************************************)

\* The slot holds an export table: the call reaches the instance.
DomainCallBound ==
    /\ cur = NoFrame
    /\ nDom < MaxDom
    /\ slot # Guard
    /\ nDom' = nDom + 1
    /\ domRes' = domRes \cup
          {DomRec(slot, "ok", NoMsg, slot, slot \in started, slot \in startedOk)}
    /\ UNCHANGED << enumLast, variant, streaming, slot, mod, pc, ret, out, boundAt, cur,
                    nFetch, nCompile, nMod, nInst, rebound, started,
                    startedOk, faults >>

\* The slot holds the Proxy of a fetch entry point: its get trap throws.
DomainCallGuardThrow ==
    /\ cur = NoFrame
    /\ nDom < MaxDom
    /\ slot = Guard
    /\ GuardThrows(variant)
    /\ nDom' = nDom + 1
    /\ domRes' = domRes \cup
          {DomRec(Guard, "err", PrematureUseMsg, 0, FALSE, FALSE)}
    /\ UNCHANGED << enumLast, variant, streaming, slot, mod, pc, ret, out, boundAt, cur,
                    nFetch, nCompile, nMod, nInst, rebound, started,
                    startedOk, faults >>

\* The slot holds the Proxy of a file-system entry point: its get trap runs
\* loadModuleSync() and then initInstance().
DomainCallAutoLoad(outcome) ==
    /\ cur = NoFrame
    /\ nDom < MaxDom
    /\ slot = Guard
    /\ ~GuardThrows(variant)
    /\ nDom' = nDom + 1
    /\ IF mod # NoModule
       THEN /\ outcome = "ok"
            /\ cur' = [kind |-> "dom", id |-> 0, step |-> "instantiate", inst |-> 0]
            /\ UNCHANGED << mod, nFetch, nCompile, nMod, domRes, faults >>
       ELSE /\ nFetch' = nFetch + 1
            /\ nCompile' = IF outcome = "read" THEN nCompile ELSE nCompile + 1
            /\ IF outcome = "ok"
               THEN /\ nMod' = nMod + 1
                    /\ mod' = ModAfterCompile(mod, nMod + 1)
                    /\ cur' = [kind |-> "dom", id |-> 0, step |-> "instantiate",
                               inst |-> 0]
                    /\ UNCHANGED << domRes, faults >>
               ELSE /\ domRes' = domRes \cup
                          {DomRec(Guard, "err",
                                  IF outcome = "read" THEN ReadMsg ELSE CompileMsg,
                                  0, FALSE, FALSE)}
                    /\ mod' = ModAfterFailedLoad(mod)
                    /\ faults' = TRUE
                    /\ UNCHANGED << nMod, cur >>
    /\ UNCHANGED << enumLast, variant, streaming, slot, pc, ret, out, boundAt, nInst,
                    rebound, started, startedOk >>

Next ==
    \/ \E i \in Calls : InitAsyncCall(i)
    \/ \E i \in Calls, o \in {"ok", "status", "network", "compile"} : StreamingSettle(i, o)
    \/ \E i \in Calls, o \in {"ok", "status", "network"} : FetchSettle(i, o)
    \/ \E i \in Calls, ok \in BOOLEAN : ReadSettle(i, ok)
    \/ \E i \in Calls, ok \in BOOLEAN : CompileSettle(i, ok)
    \/ \E i \in Calls : InitResume(i)
    \/ \E linkOk \in BOOLEAN : Instantiate(linkOk)
    \/ Rebind
    \/ \E ok \in BOOLEAN : Start(ok)
    \/ DomainCallBound
    \/ DomainCallGuardThrow
    \/ \E o \in {"ok", "read", "compile"} : DomainCallAutoLoad(o)

Spec == Init /\ [][Next]_vars

(***************************************************************************)
(* The Binding Surface also exports constants that do not go through the   *)
(* Live Exports Slot: the variants of the HistoryVisibility enum.          *)
(***************************************************************************)

EnumNames == {"Invited", "Joined", "Shared", "WorldReadable"}

EnumValue(name) ==
    IF name = "Invited" THEN 0
    ELSE IF name = "Joined" THEN 1
    ELSE IF name = "Shared" THEN 2
    ELSE 3

\* HistoryVisibility.<name> is read: a plain property of the bindings.
EnumRead(name) ==
    /\ cur = NoFrame
    /\ enumLast' = [name |-> name, value |-> EnumValue(name)]
    /\ UNCHANGED << variant, streaming, slot, mod, pc, ret, out, boundAt, cur,
                    nFetch, nCompile, nMod, nInst, rebound, started,
                    startedOk, nDom, domRes, faults >>

NextSurface ==
    \/ Next
    \/ \E name \in EnumNames : EnumRead(name)

SpecSurface == Init /\ [][NextSurface]_vars

(***************************************************************************)
(* Properties                                                              *)
(***************************************************************************)

\* No initAsync call has been issued.
NoInitIssued == \A i \in Calls : pc[i] = "idle"

\* Causes of a rejection that are failures of the host or of the binary.
HostCauses == {"status", "network", "read", "compile", "link", "start"}

\* C1: in the fetch entry points, every domain call that reads the slot
\* while it still holds the Proxy (also while an initAsync is suspended)
\* throws the premature-use error, whose message names initAsync.
C1_PrematureUseOnly ==
    variant \in WebVariants =>
        \A r \in domRes :
            r.slot = Guard =>
                /\ r.kind = "err"
                /\ r.msg = PrematureUseMsg
                /\ Includes(r.msg, "initAsync")

C1_Witness ==
    /\ variant \in WebVariants
    /\ \E r \in domRes : r.slot = Guard /\ r.during /\ r.kind = "err"
    /\ \E r \in domRes : r.slot = Guard /\ ~r.during /\ r.kind = "err"

\* C2: when two initAsync calls (and nothing else) have resolved, exactly
\* one fetch/read, one compile and one instantiation have happened and both
\* calls completed with the slot bound to the same export table.
C2_TwoCallsLoadOnce ==
    (/\ nDom = 0
     /\ \A i \in Calls : pc[i] = (IF i <= 2 THEN "resolved" ELSE "idle")) =>
        /\ nFetch = 1
        /\ nCompile = 1
        /\ nInst = 1
        /\ boundAt[1] = boundAt[2]

\* C3: the Module Cache compiles once per process: as long as the host
\* fails nothing, at most one fetch/read and one compile are issued and at
\* most one module is compiled, which stays in the cache.
C3_CompileOnce ==
    ~faults =>
        /\ nFetch <= 1
        /\ nCompile <= 1
        /\ nMod <= 1
        /\ mod \in {NoModule, 1}

\* C4: in the file-system entry points, as long as the host fails nothing,
\* at most one instance is constructed and __wbindgen_start is invoked at
\* most once.
C4_SingleInstance ==
    (variant \in NodeVariants /\ ~faults) =>
        (nInst <= 1 /\ Cardinality(started) <= 1)

\* C5: once the slot is bound to an export table, no step (of a run in
\* which the host fails nothing) binds it to anything else.
C5_ReboundOnce == [][(slot # Guard /\ ~faults') => slot' = slot]_vars

\* C6: once the slot is bound to an export table, no step (a further
\* initAsync, resolving or rejecting, or a domain call) binds it to the
\* Proxy again.
C6_NeverReverts == [][slot # Guard => slot' # Guard]_vars

C6_Witness ==
    /\ slot # Guard
    /\ \E i, j \in Calls :
          /\ pc[i] = "resolved"
          /\ boundAt[i] = slot
          /\ pc[j] = "rejected"
          /\ out[j].cause = "link"
    /\ \E r \in domRes : r.slot # Guard

\* C7: in the file-system entry points, as long as no initAsync has been
\* issued, the domain calls construct at most one module and one instance
\* and start it at most once, and every call that succeeds reaches that
\* instance; if the host fails nothing, one read and one compile are issued
\* and every call succeeds against the started instance.
C7_AutoLoadOnce ==
    (variant \in NodeVariants /\ NoInitIssued) =>
        /\ nMod <= 1
        /\ nInst <= 1
        /\ Cardinality(started) <= 1
        /\ \A r \in domRes : r.kind = "ok" => r.inst = 1
        /\ ~faults =>
              /\ nFetch <= 1
              /\ nCompile <= 1
              /\ \A r \in domRes : r.kind = "ok" /\ r.startCompleted
              /\ (cur = NoFrame /\ nDom > 0) => domRes # {}

C7_Witness ==
    /\ variant \in NodeVariants
    /\ NoInitIssued
    /\ ~faults
    /\ cur = NoFrame
    /\ nDom >= 2
    /\ nInst = 1
    /\ \E r \in domRes : r.slot = Guard /\ r.kind = "ok"
    /\ \E r \in domRes : r.slot = 1 /\ r.kind = "ok"

\* C8: in the fetch entry points a failed fetch/read or compile is not
\* cached: while no compile has succeeded the cache is empty and the slot
\* holds the Proxy; an initAsync call rejects only with a failure of the
\* host, so a call whose steps all succeed resolves, and it resolves with
\* the slot bound to a started export table.
C8_FailedLoadNotCached ==
    variant \in WebVariants =>
        /\ nMod = 0 => (mod = NoModule /\ slot = Guard)
        /\ \A i \in Calls :
              /\ pc[i] = "rejected" => out[i].cause \in HostCauses
              /\ pc[i] = "resolved" =>
                    (boundAt[i] # Guard /\ boundAt[i] \in startedOk)

C8_Witness ==
    /\ variant \in WebVariants
    /\ pc[1] = "rejected"
    /\ out[1].cause \in {"status", "network", "read", "compile"}
    /\ pc[2] = "resolved"
    /\ nMod = 1
    /\ \E r \in domRes : r.kind = "ok" /\ r.slot = boundAt[2]

C10_RebindBetweenInstantiateAndStart ==
    /\ rebound \subseteq 1..nInst
    /\ started \subseteq rebound
    /\ (slot # Guard /\ slot \notin started) =>
          (cur.kind # "none" /\ cur.step = "start" /\ cur.inst = slot)
    /\ (cur.kind # "none" /\ cur.step \in {"rebind", "start"}) =>
          (cur.inst = nInst /\ cur.inst \notin started)
    /\ \A r \in domRes : r.kind = "ok" => r.startInvoked

C10_Witness ==
    /\ cur.kind # "none"
    /\ cur.step = "start"
    /\ slot = cur.inst
    /\ slot \notin started
    /\ nInst >= 2

\* C11: an initAsync call that has resolved did so without an error, with
\* the slot bound to an export table whose start-up had returned; a call in
\* which the fetch/read, the compile, the instantiation or the start-up
\* failed has rejected, with the error of that failure.
C11_ResolvesAfterStartOrRejects ==
    \A i \in Calls :
        /\ pc[i] = "resolved" =>
              /\ out[i] = NoOutcome
              /\ boundAt[i] # Guard
              /\ boundAt[i] \in rebound
              /\ boundAt[i] \in startedOk
        /\ out[i].cause # "none" =>
              /\ pc[i] = "rejected"
              /\ out[i].msg # NoMsg
              /\ out[i].cause = "link" => out[i].msg = LinkMsg
              /\ out[i].cause = "start" => out[i].msg = StartMsg
              /\ out[i].cause = "compile" => out[i].msg = CompileMsg
              /\ out[i].cause = "read" => out[i].msg = ReadMsg
        /\ pc[i] = "rejected" => out[i].cause # "none"

C11_Witness ==
    /\ \E i \in Calls : pc[i] = "resolved" /\ boundAt[i] \in startedOk
    /\ \E j \in Calls : pc[j] = "rejected" /\ out[j].cause = "start"

\* C12: when two initAsync calls have resolved and no other call is under
\* way or has failed, the slot holds the export table that one of them
\* installed, its start-up has returned, and every domain call that read
\* this binding succeeded on a started instance.
C12_BothResolvedSlotStarted ==
    (/\ pc[1] = "resolved"
     /\ pc[2] = "resolved"
     /\ \A i \in Calls : pc[i] \in {"idle", "resolved"}) =>
        /\ slot # Guard
        /\ slot \in startedOk
        /\ \E i \in Calls : pc[i] = "resolved" /\ boundAt[i] = slot
        /\ \A r \in domRes :
              r.slot = slot => (r.kind = "ok" /\ r.inst = slot /\ r.startCompleted)

C12_Witness ==
    /\ variant \in WebVariants
    /\ pc[1] = "resolved"
    /\ pc[2] = "resolved"
    /\ nFetch = 2
    /\ nInst = 2
    /\ slot = 2
    /\ \E r \in domRes : r.slot = 2 /\ r.kind = "ok" /\ r.startCompleted

\* C13 (as stated): in the fetch entry points a call leaves the streaming
\* compile either with the compiled module or, when the streaming compile
\* failed, for the buffered fetch of the same loadModule call.
C13_StreamingFailureFallsBack ==
    [][\A i \in Calls :
          (pc[i] = "streaming" /\ pc'[i] # "streaming") =>
              pc'[i] \in {"loaded", "fetching"}]_vars

\* C13 (amended): the buffered path is entered only from the start of
\* loadModule and only when the host has no compileStreaming; a call whose
\* streaming compile failed rejects at once, without another fetch.
C13_BufferedOnlyWithoutStreaming ==
    [][\A i \in Calls :
          /\ (pc[i] # "fetching" /\ pc'[i] = "fetching") =>
                (variant \in WebVariants /\ ~streaming /\ pc[i] = "idle")
          /\ (pc[i] = "idle" /\ pc'[i] = "streaming") =>
                (variant \in WebVariants /\ streaming)
          /\ (pc[i] = "streaming" /\ pc'[i] # "streaming") =>
                /\ pc'[i] \in {"loaded", "rejected"}
                /\ nFetch' = nFetch
                /\ nCompile' = nCompile]_vars

C13_Witness ==
    /\ variant \in WebVariants
    /\ streaming
    /\ pc[1] = "rejected"
    /\ out[1].cause = "compile"
    /\ nFetch = 1
    /\ nCompile = 1
    /\ pc[2] = "idle"

\* A step in which new WebAssembly.Instance threw.
InstantiateThrew ==
    /\ cur.kind # "none"
    /\ cur.step = "instantiate"
    /\ cur' # cur
    /\ nInst' = nInst

\* C14: a step in which new WebAssembly.Instance throws ends the
\* synchronous section without another attempt, hands the error to the
\* initAsync call or the domain call that ran it, and leaves the slot (the
\* Proxy, if nothing was installed before), the set of started instances
\* and the set of installed tables as they were.
C14_LinkErrorPropagates ==
    [][InstantiateThrew =>
          /\ cur' = NoFrame
          /\ slot' = slot
          /\ rebound' = rebound
          /\ started' = started
          /\ cur.kind = "init" =>
                /\ pc'[cur.id] = "rejected"
                /\ out'[cur.id] = [cause |-> "link", msg |-> LinkMsg]
          /\ cur.kind = "dom" =>
                \E r \in domRes' :
                    r.slot = Guard /\ r.kind = "err" /\ r.msg = LinkMsg]_vars

C14_Witness ==
    /\ cur = NoFrame
    /\ slot = Guard
    /\ started = {}
    /\ nInst = 0
    /\ mod # NoModule
    /\ \E i \in Calls : pc[i] = "rejected" /\ out[i].cause = "link"

\* A step in which a domain call read the Proxy of a file-system entry
\* point while the Module Cache was empty.
AutoLoadStep ==
    /\ variant \in NodeVariants
    /\ nDom' = nDom + 1
    /\ slot = Guard
    /\ mod = NoModule

\* C15: in the file-system entry points every domain call that reads the
\* Proxy with an empty cache issues a read; if the read or the compile fails
\* the call throws that error, the cache stays empty and the Proxy stays
\* installed, so that the next domain call reads and compiles again;
\* otherwise the module is compiled and stored.
C15_AutoLoadFailureNotCached ==
    [][AutoLoadStep =>
          /\ nFetch' = nFetch + 1
          /\ slot' = Guard
          /\ IF cur' = NoFrame
             THEN /\ mod' = NoModule
                  /\ nMod' = nMod
                  /\ nInst' = nInst
                  /\ \E r \in domRes' :
                        /\ r.slot = Guard
                        /\ r.kind = "err"
                        /\ r.msg = (IF nCompile' = nCompile
                                    THEN ReadMsg ELSE CompileMsg)
             ELSE /\ nCompile' = nCompile + 1
                  /\ mod' = nMod + 1
                  /\ cur'.kind = "dom"]_vars

C15_Witness ==
    /\ variant \in NodeVariants
    /\ NoInitIssued
    /\ cur = NoFrame
    /\ nFetch = 2
    /\ nCompile = 1
    /\ \E r \in domRes : r.slot = Guard /\ r.kind = "err" /\ r.msg = ReadMsg
    /\ \E r \in domRes : r.slot = Guard /\ r.kind = "ok" /\ r.inst = 1

\* A step in which __wbindgen_start threw.
StartThrew ==
    /\ cur.kind # "none"
    /\ cur.step = "start"
    /\ cur' # cur
    /\ cur.inst \notin startedOk'

\* C16: a step in which __wbindgen_start throws hands the error to the
\* initAsync call or the domain call that ran it and leaves the slot bound
\* to the new instance's export table; every domain call that reads a bound
\* slot reaches that table, started or not.
C16_StartFailureKeepsSlot ==
    /\ [][StartThrew =>
             /\ cur' = NoFrame
             /\ slot = cur.inst
             /\ slot' = cur.inst
             /\ cur.kind = "init" =>
                   /\ pc'[cur.id] = "rejected"
                   /\ out'[cur.id] = [cause |-> "start", msg |-> StartMsg]
             /\ cur.kind = "dom" =>
                   \E r \in domRes' :
                       r.slot = Guard /\ r.kind = "err" /\ r.msg = StartMsg]_vars
    /\ [](\A r \in domRes : r.slot # Guard => (r.kind = "ok" /\ r.inst = r.slot))

C16_Witness ==
    /\ cur = NoFrame
    /\ slot # Guard
    /\ slot \in started
    /\ slot \notin startedOk
    /\ \E i \in Calls : pc[i] = "rejected" /\ out[i].cause = "start"
    /\ \E r \in domRes :
          r.slot = slot /\ r.kind = "ok" /\ r.startInvoked /\ ~r.startCompleted

\* C18: whenever new WebAssembly.Instance is about to run, the Module Cache
\* holds a compiled module, and so does the value awaited from loadModule()
\* where that value is the one used (ES module); no initAsync call and no
\* domain call has failed for want of a module.  In index.js loadModule()
\* resolves with no value on first load, and the cache is what is used.
C18_InstantiateHasModule ==
    /\ (cur.kind # "none" /\ cur.step = "instantiate") =>
          /\ mod \in 1..nMod
          /\ (cur.kind = "init" /\ variant = "index_esm") =>
                ret[cur.id] \in 1..nMod
    /\ \A i \in Calls : out[i].cause # "nomodule" /\ out[i].msg # NoModuleMsg
    /\ \A r \in domRes : r.msg # NoModuleMsg

C18_Witness ==
    /\ variant = "index_cjs"
    /\ cur.kind = "init"
    /\ cur.step = "instantiate"
    /\ ret[cur.id] = NoModule
    /\ mod \in 1..nMod

\* C17: as long as no initAsync call and no domain call has been issued,
\* the slot holds the Proxy, the Module Cache is empty and no fetch/read,
\* compile or instantiation has been started; reading an enum constant of
\* the Binding Surface yields its value and changes neither the slot nor the
\* cache nor any of the loader's counters.
C17_LoadOnlyInstallsGuard ==
    /\ []((NoInitIssued /\ nDom = 0) =>
             /\ slot = Guard
             /\ mod = NoModule
             /\ cur = NoFrame
             /\ nFetch = 0
             /\ nCompile = 0
             /\ nMod = 0
             /\ nInst = 0
             /\ started = {}
             /\ faults = FALSE)
    /\ [](/\ enumLast.name = "Invited" => enumLast.value = 0
          /\ enumLast.name = "Joined" => enumLast.value = 1
          /\ enumLast.name = "Shared" => enumLast.value = 2
          /\ enumLast.name = "WorldReadable" => enumLast.value = 3)
    /\ [][enumLast' # enumLast =>
             /\ enumLast'.name \in EnumNames
             /\ slot' = slot
             /\ mod' = mod
             /\ pc' = pc
             /\ nFetch' = nFetch
             /\ nCompile' = nCompile
             /\ nInst' = nInst]_vars

C17_Witness ==
    /\ NoInitIssued
    /\ nDom = 0
    /\ slot = Guard
    /\ mod = NoModule
    /\ enumLast = [name |-> "WorldReadable", value |-> 3]

====
